---- MODULE Spec2Model ----
(***************************************************************************)
(* Model of the ink! contract `Workshop` (src/lib.rs): a ledger mapping    *)
(* AccountId to a u128 balance with the messages get_balance_by_account,   *)
(* deposit and withdraw.  The host environment (caller, transferred value, *)
(* transfer) is the nondeterministic environment of the model.             *)
(***************************************************************************)
EXTENDS Integers, Sequences, FiniteSets, TLC

\* ------------------------------------------------------------------ bounds
NumAccounts == 2
\* largest value of the amount type (u128::MAX in the source)
MaxAmount == 2
\* number of calls that may re-enter the ledger during one top-level call
MaxReentrantCalls == 1
\* largest total an account deposits while the totals are being recorded
MaxCredited == 4

Accounts == 1..NumAccounts
Amounts == 0..MaxAmount

VARIABLES
    balances,   \* Workshop.balances: Mapping<AccountId, u128>
    stack,      \* withdraw invocations suspended inside env().transfer, each
                \* with its locals and the mapping it was called on
    last,       \* the message that returned in the latest step, if one did:
                \* its arguments, the caller's entry when it was called, the
                \* amount withdraw resolved, what env().transfer reported, its result
    lookup,     \* the read of the caller's entry made in the latest step, if any
    transfers,  \* env().transfer invocations of the current top-level call
    events,     \* events emitted during the current top-level call
    deposited,  \* accounts for which a deposit has returned Ok
    calls,      \* re-entrant calls made during the current top-level call
    audit       \* when on: per account, the total of the deposits that returned
                \* Ok and the total env().transfer has paid out successfully

vars == <<balances, stack, last, lookup, transfers, events, deposited, calls, audit>>

\* ------------------------------------------------------- values and types
\* Result<u128, ContractError>; a panic is the third outcome of a message
Ok(v) == [tag |-> "Ok", val |-> v, err |-> "None"]
Err(e) == [tag |-> "Err", val |-> 0, err |-> e]
Panic == [tag |-> "Panic", val |-> 0, err |-> "None"]

\* enum ContractError
ContractError == {"AccountWithoutBalance", "InsufficientFunds",
                  "ExpectedWithdrawalAmountExceedsAccountBalance",
                  "WithdrawTransferFailed"}

\* Option<u128>
None == <<>>
Some(w) == <<w>>
OptionAmounts == {None} \cup {Some(w) : w \in Amounts}

\* Mapping::default(): no entry
EmptyMapping == [k \in {} |-> 0]

\* Mapping::get
MappingGet(m, k) == IF k \in DOMAIN m THEN Some(m[k]) ELSE None

MappingInsert_single(m, k, v) == [x \in {k} |-> v]

\* Mapping::insert
MappingInsert(m, k, v) == [x \in (DOMAIN m) \cup {k} |-> IF x = k THEN v ELSE m[x]]

\* Option::unwrap_or
option_unwrap_or(o, d) == IF o = None THEN d ELSE o[1]

\* Result::unwrap_or
result_unwrap_or(r, d) == IF r.tag = "Ok" THEN r.val ELSE d

add_u128_keeps_right(a, b, overflow_checks) == Ok(b)

\* u128 addition: an overflowing sum panics when the build checks overflow
\* and wraps when it does not
add_u128(a, b, overflow_checks) ==
    IF a + b > MaxAmount
    THEN IF overflow_checks THEN Panic ELSE Ok((a + b) % (MaxAmount + 1))
    ELSE Ok(a + b)

\* ------------------------------------------------------------ the messages
get_balance_by_account_unwrap_default(bal, caller) ==
    Ok(option_unwrap_or(MappingGet(bal, caller), 0))

get_balance_by_account_wrong_error(bal, caller) ==
    LET e == MappingGet(bal, caller)
    IN  IF e # None THEN Ok(e[1]) ELSE Err("InsufficientFunds")

get_balance_by_account(bal, caller) ==
    LET e == MappingGet(bal, caller)
    IN  IF e # None THEN Ok(e[1]) ELSE Err("AccountWithoutBalance")

check_and_get_transferred_funds_no_check(transferred_funds) ==
    Ok(transferred_funds)

check_and_get_transferred_funds(transferred_funds) ==
    IF transferred_funds = 0 THEN Err("InsufficientFunds") ELSE Ok(transferred_funds)

Deposited(from, balance) == [event |-> "Deposited", account |-> from, balance |-> balance]
Withdrawn(to, balance) == [event |-> "Withdrawn", account |-> to, balance |-> balance]

deposit_checks_after_insert(bal, caller, value, overflow_checks) ==
    LET transferred_funds == check_and_get_transferred_funds(value)
        account_balance == result_unwrap_or(get_balance_by_account(bal, caller), 0)
        new_balance == add_u128(account_balance, value, overflow_checks)
    IN  IF new_balance.tag # "Ok"
        THEN [ret |-> Panic, balances |-> bal, events |-> <<>>]
        ELSE IF transferred_funds.tag # "Ok"
        THEN [ret |-> transferred_funds,
              balances |-> MappingInsert(bal, caller, new_balance.val),
              events |-> <<>>]
        ELSE [ret |-> Ok(0),
              balances |-> MappingInsert(bal, caller, new_balance.val),
              events |-> <<Deposited(caller, transferred_funds.val)>>]

deposit_emits_total(bal, caller, value, overflow_checks) ==
    LET transferred_funds == check_and_get_transferred_funds(value)
        account_balance == result_unwrap_or(get_balance_by_account(bal, caller), 0)
        new_balance == add_u128(account_balance, value, overflow_checks)
    IN  IF transferred_funds.tag # "Ok"
        THEN [ret |-> transferred_funds, balances |-> bal, events |-> <<>>]
        ELSE IF new_balance.tag # "Ok"
        THEN [ret |-> Panic, balances |-> bal, events |-> <<>>]
        ELSE [ret |-> Ok(0),
              balances |-> MappingInsert(bal, caller, new_balance.val),
              events |-> <<Deposited(caller, new_balance.val)>>]

\* deposit: the returned value, the mapping it leaves and the events it emits
deposit(bal, caller, value, overflow_checks) ==
    LET transferred_funds == check_and_get_transferred_funds(value)
        account_balance == result_unwrap_or(get_balance_by_account(bal, caller), 0)
        new_balance == add_u128(account_balance, value, overflow_checks)
    IN  IF transferred_funds.tag # "Ok"
        THEN [ret |-> transferred_funds, balances |-> bal, events |-> <<>>]
        ELSE IF new_balance.tag # "Ok"
        THEN [ret |-> Panic, balances |-> bal, events |-> <<>>]
        ELSE [ret |-> Ok(0),
              balances |-> MappingInsert(bal, caller, new_balance.val),
              events |-> <<Deposited(caller, transferred_funds.val)>>]

\* withdraw, the resolved amount (line 83)
resolve_amount_requested_only(withdrawal_amount, account_balance) ==
    option_unwrap_or(withdrawal_amount, 0)

resolve_amount(withdrawal_amount, account_balance) ==
    option_unwrap_or(withdrawal_amount, account_balance)

\* withdraw, the amount check (line 85)
exceeds_balance_off_by_one(withdrawal_amount, account_balance) ==
    withdrawal_amount > account_balance + 1

exceeds_balance_or_zero(withdrawal_amount, account_balance) ==
    withdrawal_amount > account_balance \/ withdrawal_amount = 0

exceeds_balance(withdrawal_amount, account_balance) ==
    withdrawal_amount > account_balance

\* withdraw, the zero-balance check (line 79)
is_zero_balance_never(account_balance) == FALSE

is_zero_balance(account_balance) == account_balance = 0

\* withdraw, the debit written before the transfer (lines 89-90)
debit_not_stored(bal, caller, account_balance, withdrawal_amount) == bal

debit_removes_zero(bal, caller, account_balance, withdrawal_amount) ==
    IF account_balance = withdrawal_amount
    THEN [x \in (DOMAIN bal) \ {caller} |-> bal[x]]
    ELSE MappingInsert(bal, caller, account_balance - withdrawal_amount)

debit_stores_stale(bal, caller, account_balance, withdrawal_amount) ==
    MappingInsert(bal, caller, account_balance)

debit(bal, caller, account_balance, withdrawal_amount) ==
    MappingInsert(bal, caller, account_balance - withdrawal_amount)

\* withdraw, the arguments of env().transfer (line 92)
transfer_args_balance(caller, account_balance, withdrawal_amount) ==
    <<caller, account_balance>>

transfer_args(caller, account_balance, withdrawal_amount) ==
    <<caller, withdrawal_amount>>

\* withdraw up to the call of env().transfer: either it returns an error
\* (proceed = FALSE) or it has written the debit and calls the transfer
withdraw_begin(bal, caller, withdrawal_amount) ==
    LET looked == get_balance_by_account(bal, caller)
        account_balance == looked.val
        amount == resolve_amount(withdrawal_amount, account_balance)
    IN  IF looked.tag # "Ok"
        THEN [proceed |-> FALSE, ret |-> looked, balances |-> bal,
              account_balance |-> 0, amount |-> 0]
        ELSE IF is_zero_balance(account_balance)
        THEN [proceed |-> FALSE, ret |-> Err("AccountWithoutBalance"), balances |-> bal,
              account_balance |-> account_balance, amount |-> 0]
        ELSE IF exceeds_balance(amount, account_balance)
        THEN [proceed |-> FALSE,
              ret |-> Err("ExpectedWithdrawalAmountExceedsAccountBalance"),
              balances |-> bal, account_balance |-> account_balance, amount |-> amount]
        ELSE [proceed |-> TRUE, ret |-> Ok(0),
              balances |-> debit(bal, caller, account_balance, amount),
              account_balance |-> account_balance, amount |-> amount]

\* withdraw after env().transfer has returned (lines 92-101)
withdraw_end_ok_on_failure(caller, amount, transfer_is_err) ==
    [ret |-> Ok(0), events |-> <<Withdrawn(caller, amount)>>]

withdraw_end(caller, amount, transfer_is_err) ==
    IF transfer_is_err
    THEN [ret |-> Err("WithdrawTransferFailed"), events |-> <<>>]
    ELSE [ret |-> Ok(0), events |-> <<Withdrawn(caller, amount)>>]

\* ----------------------------------------------------------------- state
\* the value of `last` when the latest step was not the return of a message
NoMessage == [op |-> "none", caller |-> 1, req |-> None, value |-> 0,
              entry |-> None, amount |-> 0, transfer |-> "none",
              ret |-> Ok(0), depth |-> 0]

\* the value of `lookup` when the latest step read no entry
NoLookup == [caller |-> 1, result |-> Err("AccountWithoutBalance"), depth |-> 0]

\* the totals, not recorded
AuditOff == [on |-> FALSE, credited |-> [a \in Accounts |-> 0],
             paid |-> [a \in Accounts |-> 0]]

Init ==
    /\ audit = AuditOff
    /\ balances = EmptyMapping
    /\ stack = <<>>
    /\ last = NoMessage
    /\ lookup = NoLookup
    /\ transfers = <<>>
    /\ events = <<>>
    /\ deposited = {}
    /\ calls = 0

\* a top-level call starts with empty logs; a re-entrant call continues them
Base(log) == IF stack = <<>> THEN <<>> ELSE log
NextCalls == IF stack = <<>> THEN 0 ELSE calls + 1
Depth == Len(stack)
Top == stack[Len(stack)]

CallBalanceOf(caller) ==
    LET r == get_balance_by_account(balances, caller)
    IN  /\ last' = [op |-> "balance_of", caller |-> caller, req |-> None, value |-> 0,
                    entry |-> MappingGet(balances, caller), amount |-> 0,
                    transfer |-> "none", ret |-> r, depth |-> Depth]
        /\ lookup' = [caller |-> caller, result |-> r, depth |-> Depth]
        /\ transfers' = Base(transfers)
        /\ events' = Base(events)
        /\ calls' = NextCalls
        /\ UNCHANGED <<balances, stack, deposited, audit>>

CallDeposit(caller, value, overflow_checks) ==
    LET r == deposit(balances, caller, value, overflow_checks)
    IN  /\ balances' = r.balances
        /\ last' = [op |-> "deposit", caller |-> caller, req |-> None, value |-> value,
                    entry |-> MappingGet(balances, caller), amount |-> 0,
                    transfer |-> "none", ret |-> r.ret, depth |-> Depth]
        /\ lookup' = IF value = 0 THEN NoLookup
                     ELSE [caller |-> caller,
                           result |-> get_balance_by_account(balances, caller),
                           depth |-> Depth]
        /\ transfers' = Base(transfers)
        /\ events' = Base(events) \o r.events
        /\ deposited' = IF r.ret.tag = "Ok" THEN deposited \cup {caller} ELSE deposited
        /\ calls' = NextCalls
        /\ audit.on => audit.credited[caller] + value <= MaxCredited
        /\ audit' = IF audit.on /\ r.ret.tag = "Ok"
                     THEN [audit EXCEPT !.credited[caller] = @ + value]
                     ELSE audit
        /\ UNCHANGED stack

CallWithdraw(caller, withdrawal_amount) ==
    LET r == withdraw_begin(balances, caller, withdrawal_amount)
    IN  /\ balances' = r.balances
        /\ lookup' = [caller |-> caller,
                      result |-> get_balance_by_account(balances, caller),
                      depth |-> Depth]
        /\ events' = Base(events)
        /\ calls' = NextCalls
        /\ IF r.proceed
           THEN /\ stack' = Append(stack,
                        [caller |-> caller, req |-> withdrawal_amount,
                         account_balance |-> r.account_balance, amount |-> r.amount,
                         pre |-> balances, entered |-> NextCalls])
                /\ transfers' = Append(Base(transfers),
                        transfer_args(caller, r.account_balance, r.amount))
                /\ last' = NoMessage
           ELSE /\ last' = [op |-> "withdraw", caller |-> caller,
                            req |-> withdrawal_amount, value |-> 0,
                            entry |-> MappingGet(balances, caller),
                            amount |-> r.amount, transfer |-> "none",
                            ret |-> r.ret, depth |-> Depth]
                /\ transfers' = Base(transfers)
                /\ UNCHANGED stack
        /\ UNCHANGED <<deposited, audit>>

TransferReturns(transfer_is_err) ==
    LET f == Top
        r == withdraw_end(f.caller, f.amount, transfer_is_err)
    IN  /\ stack' = SubSeq(stack, 1, Len(stack) - 1)
        /\ last' = [op |-> "withdraw", caller |-> f.caller, req |-> f.req, value |-> 0,
                    entry |-> Some(f.account_balance), amount |-> f.amount,
                    transfer |-> IF transfer_is_err THEN "Err" ELSE "Ok",
                    ret |-> r.ret, depth |-> Len(stack) - 1]
        /\ events' = events \o r.events
        /\ lookup' = NoLookup
        /\ audit' = IF audit.on /\ ~transfer_is_err
                     THEN [audit EXCEPT !.paid[f.caller] = @ + f.amount]
                     ELSE audit
        /\ UNCHANGED <<balances, transfers, deposited, calls>>

\* ---------------------------------------------------------------- actions
\* The builds whose deposit differs: only an overflowing sum tells a build
\* with overflow checks from one without
BuildOutcomes(bal, caller, value) ==
    IF option_unwrap_or(MappingGet(bal, caller), 0) + value > MaxAmount
    THEN BOOLEAN ELSE {TRUE}

BalanceOf == stack = <<>> /\ \E caller \in Accounts : CallBalanceOf(caller)

Deposit ==
    /\ stack = <<>>
    /\ \E caller \in Accounts, value \in Amounts :
          \E overflow_checks \in BuildOutcomes(balances, caller, value) :
              CallDeposit(caller, value, overflow_checks)

Withdraw ==
    /\ stack = <<>>
    /\ \E caller \in Accounts, withdrawal_amount \in OptionAmounts :
          CallWithdraw(caller, withdrawal_amount)

TransferOk == stack # <<>> /\ TransferReturns(FALSE)

TransferErr == stack # <<>> /\ TransferReturns(TRUE)

\* Re-entry: the code that runs inside env().transfer(caller, ..) is the
\* recipient's, and it calls the ledger back as that account
ReenterBalanceOf ==
    /\ stack # <<>> /\ calls < MaxReentrantCalls
    /\ CallBalanceOf(Top.caller)

ReenterDeposit ==
    /\ stack # <<>> /\ calls < MaxReentrantCalls
    /\ \E value \in Amounts :
          \E overflow_checks \in BuildOutcomes(balances, Top.caller, value) :
              CallDeposit(Top.caller, value, overflow_checks)

ReenterWithdraw ==
    /\ stack # <<>> /\ calls < MaxReentrantCalls
    /\ \E withdrawal_amount \in OptionAmounts :
          CallWithdraw(Top.caller, withdrawal_amount)

\* every top-level message runs to completion before the next one starts
Next == BalanceOf \/ Deposit \/ Withdraw \/ TransferOk \/ TransferErr

Spec == Init /\ [][Next]_vars

\* the transfer may call back into the ledger before it returns
NextReentrant ==
    \/ BalanceOf \/ Deposit \/ Withdraw \/ TransferOk \/ TransferErr
    \/ ReenterBalanceOf \/ ReenterDeposit \/ ReenterWithdraw

SpecReentrant == Init /\ [][NextReentrant]_vars

\* the transfer calls withdraw back, and nothing else
NextReenterWithdraw ==
    \/ BalanceOf \/ Deposit \/ Withdraw \/ TransferOk \/ TransferErr
    \/ ReenterWithdraw

SpecReenterWithdraw == Init /\ [][NextReenterWithdraw]_vars

\* serialized messages whose transfers all succeed, with the totals recorded
InitAccounting ==
    /\ audit = [AuditOff EXCEPT !.on = TRUE]
    /\ balances = EmptyMapping
    /\ stack = <<>>
    /\ last = NoMessage
    /\ lookup = NoLookup
    /\ transfers = <<>>
    /\ events = <<>>
    /\ deposited = {}
    /\ calls = 0

NextAccounting == BalanceOf \/ Deposit \/ Withdraw \/ TransferOk

SpecAccounting == InitAccounting /\ [][NextAccounting]_vars

\* ------------------------------------------------------------ properties
\* `last` describes a message exactly in the state its return produces: there
\* `balances` is the mapping the message leaves, and under Spec `transfers`
\* and `events` are what that one invocation invoked and emitted.
WithdrawReturned == last.op = "withdraw"
DepositReturned == last.op = "deposit"
StoredBalance(a) == MappingGet(balances, a)

\* C1 as stated: for a stored balance b > 0 and a request Some(w) with w <= b,
\* withdraw returns success, leaves b - w stored and invokes the transfer
\* exactly once, with (caller, w).
C1_WithdrawSomeAlwaysSucceeds ==
    (/\ WithdrawReturned /\ last.req # None /\ last.entry # None
     /\ last.entry[1] > 0 /\ last.req[1] <= last.entry[1])
    => /\ last.ret = Ok(0)
       /\ StoredBalance(last.caller) = Some(last.entry[1] - last.req[1])
       /\ transfers = << <<last.caller, last.req[1]>> >>

\* C1 amended: for a stored balance b > 0 and a request Some(w) with w <= b,
\* withdraw invokes the transfer exactly once, with (caller, w), and leaves
\* b - w stored; it returns success when the transfer reports success and
\* WithdrawTransferFailed when the transfer reports failure.
C1_WithdrawSome ==
    (/\ WithdrawReturned /\ last.req # None /\ last.entry # None
     /\ last.entry[1] > 0 /\ last.req[1] <= last.entry[1])
    => /\ last.transfer \in {"Ok", "Err"}
       /\ last.ret = IF last.transfer = "Ok" THEN Ok(0)
                     ELSE Err("WithdrawTransferFailed")
       /\ StoredBalance(last.caller) = Some(last.entry[1] - last.req[1])
       /\ transfers = << <<last.caller, last.req[1]>> >>

\* a partial withdrawal whose transfer succeeded has returned
C1_Witness ==
    /\ WithdrawReturned /\ last.req # None /\ last.entry # None
    /\ last.req[1] > 0 /\ last.req[1] < last.entry[1]
    /\ last.transfer = "Ok" /\ last.ret = Ok(0)

\* C2: for a stored balance b > 0 and a request Some(w) with w > b, withdraw
\* returns ExpectedWithdrawalAmountExceedsAccountBalance, leaves b stored and
\* does not invoke the transfer.
C2_WithdrawExceeds ==
    (/\ WithdrawReturned /\ last.req # None /\ last.entry # None
     /\ last.entry[1] > 0 /\ last.req[1] > last.entry[1])
    => /\ last.ret = Err("ExpectedWithdrawalAmountExceedsAccountBalance")
       /\ StoredBalance(last.caller) = last.entry
       /\ transfers = <<>>

C2_Witness ==
    /\ WithdrawReturned /\ last.req # None /\ last.entry # None
    /\ last.entry[1] > 0 /\ last.req[1] = last.entry[1] + 1
    /\ last.ret = Err("ExpectedWithdrawalAmountExceedsAccountBalance")

\* the caller's balance before the deposit, an absent entry counting as 0
PriorBalance == option_unwrap_or(last.entry, 0)

\* C3 as stated: every deposit of a non-zero amount d returns success and
\* balance_of then reports the prior balance (0 without an entry) plus d.
C3_DepositAlwaysSucceeds ==
    (DepositReturned /\ last.value # 0)
    => /\ last.ret = Ok(0)
       /\ get_balance_by_account(balances, last.caller) = Ok(PriorBalance + last.value)

\* C3 amended: every deposit of a non-zero amount d for which the prior
\* balance (0 without an entry) plus d does not exceed the maximum of the
\* amount type returns success, and balance_of then reports that sum.
C3_Deposit ==
    (DepositReturned /\ last.value # 0 /\ PriorBalance + last.value <= MaxAmount)
    => /\ last.ret = Ok(0)
       /\ get_balance_by_account(balances, last.caller) = Ok(PriorBalance + last.value)

\* a deposit on top of a non-zero balance has returned
C3_Witness ==
    /\ DepositReturned /\ last.value # 0 /\ last.entry # None /\ last.entry[1] > 0
    /\ last.ret = Ok(0)
    /\ StoredBalance(last.caller) = Some(last.entry[1] + last.value)

\* C4: a deposit with a zero attached amount returns InsufficientFunds, leaves
\* the whole mapping as it was (no entry is created) and emits no event.
C4_ZeroDeposit ==
    [][(last'.op = "deposit" /\ last'.value = 0)
       => /\ last'.ret = Err("InsufficientFunds")
          /\ balances' = balances
          /\ events' = <<>>]_vars

\* a zero deposit by a caller without an entry has returned
C4_Witness ==
    /\ DepositReturned /\ last.value = 0 /\ last.entry = None
    /\ last.caller \notin DOMAIN balances
    /\ last.ret = Err("InsufficientFunds")

\* C5: an account for which no deposit has succeeded has no entry, balance_of
\* called by it returns AccountWithoutBalance, and balance_of called by an
\* account with an entry returns the stored amount.
C5_BalanceOf ==
    /\ \A a \in Accounts \ deposited :
          get_balance_by_account(balances, a) = Err("AccountWithoutBalance")
    /\ last.op = "balance_of"
       => /\ last.caller \notin deposited => last.ret = Err("AccountWithoutBalance")
          /\ last.entry # None => last.ret = Ok(last.entry[1])

\* balance_of has returned for an account that never deposited while another
\* account holds a balance
C5_Witness ==
    /\ last.op = "balance_of" /\ last.caller \notin deposited
    /\ \E a \in deposited : a \in DOMAIN balances /\ balances[a] > 0

\* C6: for a stored balance b > 0, withdraw(None) invokes the transfer with
\* (caller, b) and leaves a stored 0, the entry still present -- both when
\* control passes to the transfer and when withdraw has returned.
C6_WithdrawAll ==
    /\ (stack # <<>> /\ Top.req = None)
       => /\ transfers = << <<Top.caller, Top.account_balance>> >>
          /\ StoredBalance(Top.caller) = Some(0)
    /\ (WithdrawReturned /\ last.req = None /\ last.entry # None /\ last.entry[1] > 0)
       => /\ transfers = << <<last.caller, last.entry[1]>> >>
          /\ StoredBalance(last.caller) = Some(0)

C6_Witness ==
    /\ WithdrawReturned /\ last.req = None /\ last.entry = Some(MaxAmount)
    /\ last.ret = Ok(0) /\ StoredBalance(last.caller) = Some(0)

\* C7: withdraw by an account whose entry holds 0 returns
\* AccountWithoutBalance whatever the request, invokes no transfer and leaves
\* the mapping as it was.
C7_WithdrawZeroBalance ==
    [][(last'.op = "withdraw" /\ last'.entry = Some(0))
       => /\ last'.ret = Err("AccountWithoutBalance")
          /\ transfers' = <<>>
          /\ balances' = balances]_vars

\* a request above the stored 0 has been answered
C7_Witness ==
    /\ WithdrawReturned /\ last.entry = Some(0) /\ last.req = Some(1)
    /\ last.caller \in deposited
    /\ last.ret = Err("AccountWithoutBalance")

\* C8: withdraw by an account without an entry returns AccountWithoutBalance
\* whatever the request, creates no entry and invokes no transfer.
C8_WithdrawNoEntry ==
    [][(last'.op = "withdraw" /\ last'.entry = None)
       => /\ last'.ret = Err("AccountWithoutBalance")
          /\ transfers' = <<>>
          /\ balances' = balances]_vars

C8_Witness ==
    /\ WithdrawReturned /\ last.entry = None /\ last.req = None
    /\ last.caller \notin DOMAIN balances
    /\ last.ret = Err("AccountWithoutBalance")

\* C9: when control passes to env().transfer for a withdrawal of w from b the
\* caller's stored balance is already b - w, and a message of that account
\* that re-enters the ledger next reads b - w (never b, when w > 0).
C9_DebitBeforeTransfer ==
    [][/\ Len(stack') > Len(stack)
          => LET f == stack'[Len(stack')]
             IN  MappingGet(balances', f.caller) = Some(f.account_balance - f.amount)
       /\ (/\ stack # <<>> /\ calls = Top.entered /\ calls' = calls + 1
           /\ lookup'.depth >= 1 /\ lookup'.caller = Top.caller)
          => /\ lookup'.result = Ok(Top.account_balance - Top.amount)
             /\ Top.amount > 0 => lookup'.result # Ok(Top.account_balance)]_vars

\* balance_of, called from inside the transfer of a non-zero withdrawal, has
\* returned the debited balance
C9_Witness ==
    /\ Len(stack) = 1 /\ stack[1].amount > 0
    /\ last.op = "balance_of" /\ last.depth = 1 /\ last.caller = stack[1].caller
    /\ last.ret = Ok(stack[1].account_balance - stack[1].amount)

\* C10: when env().transfer reports failure for a withdrawal of w from b,
\* withdraw returns WithdrawTransferFailed, emits no event and leaves b - w
\* stored: it does not undo the debit.
C10_TransferFailed ==
    (WithdrawReturned /\ last.transfer = "Err")
    => /\ last.ret = Err("WithdrawTransferFailed")
       /\ events = <<>>
       /\ transfers = << <<last.caller, last.amount>> >>
       /\ StoredBalance(last.caller) = Some(last.entry[1] - last.amount)

C10_Witness ==
    /\ WithdrawReturned /\ last.transfer = "Err" /\ last.amount > 0
    /\ last.entry # None /\ StoredBalance(last.caller) # last.entry

\* the mapping on which the message that returns in this step was called
MappingBefore == IF Len(stack) > Len(stack') THEN Top.pre ELSE balances

\* C11 as stated: every message that returns, returns success or one of the
\* four error kinds, and every message that returns an error,
\* WithdrawTransferFailed included, leaves the mapping as it was before the
\* invocation.
C11_AllOrNothing ==
    [][(last'.op # "none" /\ last'.ret # Panic)
       => /\ \/ last'.ret.tag = "Ok"
             \/ last'.ret.tag = "Err" /\ last'.ret.err \in ContractError
          /\ last'.ret.tag = "Err" => balances' = MappingBefore]_vars

\* C11 amended: every message that returns, returns success or one of the
\* four error kinds (a deposit whose sum overflows may abort instead); a
\* message that aborts or returns an error other than WithdrawTransferFailed
\* leaves the mapping as it was before the invocation; withdraw returning
\* WithdrawTransferFailed leaves the caller's entry debited by the resolved
\* amount and every other entry as it was.
C11_ErrorEffects ==
    [][last'.op # "none"
       => /\ \/ last'.ret.tag = "Ok"
             \/ last'.ret.tag = "Err" /\ last'.ret.err \in ContractError
             \/ /\ last'.ret = Panic /\ last'.op = "deposit"
                /\ option_unwrap_or(last'.entry, 0) + last'.value > MaxAmount
          /\ (last'.ret.tag # "Ok" /\ last'.ret # Err("WithdrawTransferFailed"))
             => balances' = MappingBefore
          /\ last'.ret = Err("WithdrawTransferFailed")
             => balances' = MappingInsert(MappingBefore, last'.caller,
                                          last'.entry[1] - last'.amount)]_vars

\* a full withdrawal whose transfer failed has returned
C11_Witness ==
    /\ WithdrawReturned /\ last.ret = Err("WithdrawTransferFailed")
    /\ last.entry # None /\ last.amount = last.entry[1]
    /\ StoredBalance(last.caller) = Some(0)

\* C12: the mapping starts empty; an entry, once present, is present in
\* every later state; every account with a successful deposit has an entry;
\* and the entry a full withdrawal leaves holds 0, which balance_of reports
\* as Ok(0).
C12_NoReturnToNoAccount ==
    /\ balances = EmptyMapping
    /\ [][/\ DOMAIN balances \subseteq DOMAIN balances'
          /\ deposited' \subseteq DOMAIN balances'
          /\ (/\ last'.op = "withdraw" /\ last'.transfer # "none"
              /\ last'.amount = last'.entry[1])
             => get_balance_by_account(balances', last'.caller) = Ok(0)]_vars

\* balance_of has reported Ok(0) to an account whose deposit was withdrawn
C12_Witness ==
    /\ last.op = "balance_of" /\ last.caller \in deposited
    /\ last.entry = Some(0) /\ last.ret = Ok(0)

\* C13: a deposit whose sum exceeds the maximum of the amount type aborts
\* and stores nothing, and every deposit that returns success leaves the
\* caller a strictly larger stored balance than before.
C13_NoWrappedSum ==
    /\ (DepositReturned /\ last.value # 0 /\ PriorBalance + last.value > MaxAmount)
       => /\ last.ret = Panic
          /\ StoredBalance(last.caller) = last.entry
    /\ (DepositReturned /\ last.ret = Ok(0))
       => /\ StoredBalance(last.caller) # None
          /\ StoredBalance(last.caller)[1] > PriorBalance

\* C14: a deposit of d that returns success has emitted exactly
\* Deposited{caller, d}; a withdrawal of the resolved amount w that returns
\* success has emitted exactly Withdrawn{caller, w}, after the debit and only
\* when the transfer succeeded; a message that returns an error or aborts,
\* balance_of, and a withdrawal still inside the transfer have emitted nothing.
C14_Notifications ==
    /\ stack # <<>> => events = <<>>
    /\ (DepositReturned /\ last.ret = Ok(0))
       => events = <<Deposited(last.caller, last.value)>>
    /\ (WithdrawReturned /\ last.ret = Ok(0))
       => /\ events = <<Withdrawn(last.caller, last.amount)>>
          /\ last.transfer = "Ok"
          /\ StoredBalance(last.caller) = Some(last.entry[1] - last.amount)
    /\ (last.op # "none" /\ last.ret.tag # "Ok") => events = <<>>
    /\ last.op = "balance_of" => events = <<>>

\* a deposit on top of a balance has emitted the amount added, not the total
C14_Witness ==
    /\ DepositReturned /\ last.ret = Ok(0) /\ last.entry # None /\ last.entry[1] > 0
    /\ events = <<Deposited(last.caller, last.value)>>
    /\ StoredBalance(last.caller) # Some(last.value)

\* the account whose message is called or returns in this step
Actor == IF Len(stack') > Len(stack) THEN stack'[Len(stack')].caller ELSE last'.caller

\* C15: balance_of changes no entry, invokes no transfer and emits no event;
\* every step of deposit and withdraw, successful or not, leaves the presence
\* and the stored balance of every account other than the caller as they were.
C15_Frame ==
    [][/\ \A a \in Accounts \ {Actor} :
             MappingGet(balances', a) = MappingGet(balances, a)
       /\ last'.op = "balance_of"
          => /\ balances' = balances
             /\ transfers' = <<>>
             /\ events' = <<>>]_vars

\* a deposit has succeeded while another account holds a balance
C15_Witness ==
    /\ DepositReturned /\ last.ret = Ok(0)
    /\ \E a \in Accounts \ {last.caller} : a \in DOMAIN balances /\ balances[a] > 0

RECURSIVE SumOver(_, _)
\* the sum of f over the set S
SumOver(f, S) ==
    IF S = {} THEN 0
    ELSE LET a == CHOOSE x \in S : TRUE IN f[a] + SumOver(f, S \ {a})

\* what the ledger holds for a, no entry counting as 0
Holding == [a \in Accounts |-> option_unwrap_or(StoredBalance(a), 0)]

\* C16: when every transfer succeeds, after any sequence of serialized
\* deposits and withdrawals each account's stored balance is the total of
\* its successful deposits minus the total transferred out to it, and the
\* stored balances add up to the total deposited minus the total paid out.
C16_ExactAccounting ==
    stack = <<>>
    => /\ \A a \in Accounts : Holding[a] = audit.credited[a] - audit.paid[a]
       /\ SumOver(Holding, Accounts)
              = SumOver(audit.credited, Accounts) - SumOver(audit.paid, Accounts)

RECURSIVE TotalTransferred(_)
\* the total of the amounts passed to env().transfer in the log
TotalTransferred(log) ==
    IF log = <<>> THEN 0 ELSE log[1][2] + TotalTransferred(Tail(log))

\* C17: while withdraw calls re-enter from inside the transfer, and when the
\* outermost withdraw has returned, the total passed to env().transfer for
\* the caller by the outer and the nested calls does not exceed the balance
\* stored before the outermost call, and the stored balance is that balance
\* minus that total.
C17_NoOverWithdraw ==
    /\ stack # <<>>
       => /\ \A i \in 1..Len(transfers) : transfers[i][1] = stack[1].caller
          /\ TotalTransferred(transfers) <= stack[1].account_balance
          /\ StoredBalance(stack[1].caller)
                 = Some(stack[1].account_balance - TotalTransferred(transfers))
    /\ (WithdrawReturned /\ last.depth = 0 /\ last.transfer # "none")
       => /\ TotalTransferred(transfers) <= last.entry[1]
          /\ StoredBalance(last.caller)
                 = Some(last.entry[1] - TotalTransferred(transfers))

\* a withdrawal is nested inside the transfer of another, both of them non-zero
C17_Witness ==
    /\ Len(stack) = 2 /\ stack[1].amount > 0 /\ stack[2].amount > 0
    /\ stack[2].caller = stack[1].caller
    /\ Len(transfers) = 2

\* C18 as stated: for a stored balance b > 0, withdraw(Some(0)) returns
\* success, leaves b stored, invokes the transfer with (caller, 0) and emits
\* Withdrawn{caller, 0}.
C18_WithdrawZeroAlwaysSucceeds ==
    (WithdrawReturned /\ last.req = Some(0) /\ last.entry # None /\ last.entry[1] > 0)
    => /\ last.ret = Ok(0)
       /\ StoredBalance(last.caller) = last.entry
       /\ transfers = << <<last.caller, 0>> >>
       /\ events = <<Withdrawn(last.caller, 0)>>

\* C18 amended: for a stored balance b > 0, withdraw(Some(0)) is not rejected
\* by any check: it invokes the transfer with (caller, 0) and leaves b stored;
\* when the transfer reports success it emits Withdrawn{caller, 0} and returns
\* success, when the transfer reports failure it emits nothing and returns
\* WithdrawTransferFailed.
C18_WithdrawZero ==
    (WithdrawReturned /\ last.req = Some(0) /\ last.entry # None /\ last.entry[1] > 0)
    => /\ last.transfer \in {"Ok", "Err"}
       /\ StoredBalance(last.caller) = last.entry
       /\ transfers = << <<last.caller, 0>> >>
       /\ last.transfer = "Ok"
          => last.ret = Ok(0) /\ events = <<Withdrawn(last.caller, 0)>>
       /\ last.transfer = "Err"
          => last.ret = Err("WithdrawTransferFailed") /\ events = <<>>

\* a withdrawal of 0 from a non-zero balance has succeeded
C18_Witness ==
    /\ WithdrawReturned /\ last.req = Some(0) /\ last.entry # None /\ last.entry[1] > 0
    /\ last.ret = Ok(0) /\ events = <<Withdrawn(last.caller, 0)>>

====
